---- MODULE Spec2Model ----
(***************************************************************************)
(* Model of gpr20_axis.axis_driver.AxisDriver: one axis instance, its      *)
(* busy / homing state and the homing() and move_to_coordinate()           *)
(* operations, called by the threads of a host (the ROS node runs the      *)
(* homing service and the axis action in different threads).               *)
(*                                                                         *)
(* Coordinates, step sizes and step durations are the source's floats,     *)
(* modelled as integers counted in one common unit, so that every          *)
(* quotient of the source is an exact rational here.                       *)
(***************************************************************************)
EXTENDS Integers, Sequences, FiniteSets, TLC

\* ---------------------------------------------------------------- bounds
\* Largest step size of a configuration, in coordinate units.
MaxStepSize == 2
\* Largest travel range (max_coord - min_coord) of a configuration whose
\* calls are serialized.
MaxRange == 5
\* Largest travel range of a configuration whose calls interleave.
MaxRangeThreaded == 2
\* Pulses a linear homing run may issue beyond floor(range / step_size)
\* before the model stops following it (the source's counter is unbounded).
ExtraSteps == 1
\* How far beyond [min_coord, max_coord] the model follows the coordinate
\* (interleaved movements can push it arbitrarily far).
MaxDrift == 1

\* Largest pin number given to the constructor.
MaxPin == 3
\* Largest step count given to the step planner called on its own.
MaxPlanSteps == 10

\* The calling threads of the host.
Callers == {"t1", "t2"}
\* Minimum coordinates of the configurations explored.
MinCoords == {1}
\* <<min_step, max_step, delta_step>> of the configurations explored.
StepTimes == {<<1, 2, 1>>}
\* <<min_step, max_step, delta_step>> given to the constructor, and of the
\* instances whose step planner is called on its own.
AllStepTimes ==
    {<<1, 1, 1>>, <<1, 2, 1>>, <<1, 3, 1>>, <<1, 5, 1>>, <<1, 5, 2>>,
     <<2, 5, 2>>, <<2, 6, 4>>}

VARIABLES
    \* the constructor's pin_values, and how the construction ended
    pin_values, constructed,
    \* configuration, fixed by the constructor
    axis_type, step_size, min_step, max_step, delta_step, step_intervals,
    min_coord, max_coord,
    \* axis state
    current_coord, homing_done, busy,
    \* the coordinate that the steps commanded to the motor since the last
    \* homing add up to
    commanded_coord,
    \* per calling thread: position in the code and the locals of its call
    pc, op, target_coord, move_direction, n_steps, steps_list, executed_steps,
    reached_sensor, result, pulses, samples, entry_busy, read_coord,
    \* the node: the state of the goal of the action server, the result
    \* message, the terminal reports made for the goal, and how the handler
    \* run by each thread ended
    goal_status, action_res, terminal_reports, handler_exit

config == <<pin_values, constructed, axis_type, step_size, min_step, max_step,
            delta_step, step_intervals, min_coord, max_coord>>
axis == <<current_coord, homing_done, busy, commanded_coord>>
locals == <<op, target_coord, move_direction, n_steps, steps_list,
            executed_steps, reached_sensor, result, pulses, samples,
            entry_busy, read_coord>>
node == <<goal_status, action_res, terminal_reports, handler_exit>>
vars == <<config, axis, pc, locals, node>>

\* ------------------------------------------------------- pure functions
\* Python's int(a / b) on floats: the quotient truncated toward zero.
IntDiv(a, b) ==
    IF a >= 0 THEN a \div b ELSE -((-a) \div b)

Abs(x) == IF x < 0 THEN -x ELSE x

\* n copies of v.
Repeat(n, v) == [i \in 1..n |-> v]

\* Step intervals that count the gaps, not the values.
StepGaps(mn, mx, dl) == IntDiv(mx - mn, dl)

\* AxisDriver.__init__: the available step intervals.
StepIntervals(mn, mx, dl) == IntDiv(mx - mn, dl) + 1

\* A check of availability that never raises.
NeverBusy(b) == FALSE

\* A check of the pins that forgets the step pin against the sensor pin.
PinsCollideNoStep(pins, type) ==
    \/ pins[2] = pins[1]
    \/ type = "LIN" /\ pins[1] = pins[3]

\* AxisDriver.__init__: TRUE when it raises for repeated pins. pins is
\* <<direction, step, sensor>>.
PinsCollide(pins, type) ==
    \/ pins[2] = pins[1]
    \/ type = "LIN" /\ (pins[1] = pins[3] \/ pins[2] = pins[3])

\* AxisDriver._check_availability: TRUE when it raises "Axis is busy!".
_check_availability(b) == b

\* A check of homing that never raises.
NeverUnhomed(done) == FALSE

\* AxisDriver._check_homing: TRUE when it raises.
_check_homing(done) == ~done

\* A check of the target that refuses the maximum coordinate itself.
RefuseMaxCoord(t, mn, mx) == t >= mx \/ t < mn

\* AxisDriver._check_valid_target: TRUE when it raises.
_check_valid_target(t, mn, mx) == t > mx \/ t < mn

\* AxisDriver._calculate_delta_distance.
_calculate_delta_distance(cur, t) == cur - t

\* A direction with the sign of the comparison slipped.
SlippedDirection(distance_delta) ==
    IF distance_delta > 0 THEN TRUE ELSE FALSE

\* AxisDriver._calculate_direction: TRUE for the positive direction.
_calculate_direction(distance_delta) ==
    IF distance_delta < 0 THEN TRUE ELSE FALSE

\* A step count one short of the quotient.
OneStepShort(distance_delta, step) ==
    IF IntDiv(Abs(distance_delta), step) > 0
    THEN IntDiv(Abs(distance_delta), step) - 1
    ELSE 0

\* A step count rounded up.
CeilSteps(distance_delta, step) ==
    IntDiv(Abs(distance_delta) + step - 1, step)

\* AxisDriver._calculate_steps.
_calculate_steps(distance_delta, step) == IntDiv(Abs(distance_delta), step)

\* A steps list whose acceleration starts one delta below the maximum and
\* so ends one delta below the minimum.
StepsListOvershoot(n, I, mn, mx, dl) ==
    IF n < 2 * I /\ n > 0
    THEN Repeat(n, mx)
    ELSE IF n = 2 * I
    THEN [i \in 1..I |-> mx - i * dl]
         \o [i \in 1..I |-> mn + (i - 1) * dl]
    ELSE IF n > 2 * I
    THEN [i \in 1..I |-> mx - i * dl]
         \o Repeat(n - 2 * I, mn)
         \o [i \in 1..I |-> mn + (i - 1) * dl]
    ELSE << >>

\* A steps list that ends the cruise by dropping to the slowest pause at
\* once.
StepsListAbruptStop(n, I, mn, mx, dl) ==
    IF n < 2 * I /\ n > 0
    THEN Repeat(n, mx)
    ELSE IF n = 2 * I
    THEN [i \in 1..I |-> mx - (i - 1) * dl]
         \o Repeat(I, mx)
    ELSE IF n > 2 * I
    THEN [i \in 1..I |-> mx - (i - 1) * dl]
         \o Repeat(n - 2 * I, mn)
         \o Repeat(I, mx)
    ELSE << >>

\* A steps list that never decelerates.
StepsListNoDecel(n, I, mn, mx, dl) ==
    IF n < 2 * I /\ n > 0
    THEN Repeat(n, mx)
    ELSE IF n = 2 * I
    THEN [i \in 1..I |-> mx - (i - 1) * dl]
         \o Repeat(I, mn)
    ELSE IF n > 2 * I
    THEN [i \in 1..I |-> mx - (i - 1) * dl]
         \o Repeat(n - 2 * I, mn)
         \o Repeat(I, mn)
    ELSE << >>

\* A steps list whose deceleration starts one delta above the minimum.
StepsListLateDecel(n, I, mn, mx, dl) ==
    IF n < 2 * I /\ n > 0
    THEN Repeat(n, mx)
    ELSE IF n = 2 * I
    THEN [i \in 1..I |-> mx - (i - 1) * dl]
         \o [i \in 1..I |-> mn + i * dl]
    ELSE IF n > 2 * I
    THEN [i \in 1..I |-> mx - (i - 1) * dl]
         \o Repeat(n - 2 * I, mn)
         \o [i \in 1..I |-> mn + i * dl]
    ELSE << >>

\* AxisDriver._create_steps_list: the pause of every step of a movement.
_create_steps_list(n, I, mn, mx, dl) ==
    IF n < 2 * I /\ n > 0
    THEN Repeat(n, mx)
    ELSE IF n = 2 * I
    THEN [i \in 1..I |-> mx - (i - 1) * dl]
         \o [i \in 1..I |-> mn + (i - 1) * dl]
    ELSE IF n > 2 * I
    THEN [i \in 1..I |-> mx - (i - 1) * dl]
         \o Repeat(n - 2 * I, mn)
         \o [i \in 1..I |-> mn + (i - 1) * dl]
    ELSE << >>

\* The coordinate after one step in the given direction.
UpdateCoord(cur, direction, step) ==
    IF direction THEN cur + step ELSE cur - step

\* homing(): executed_steps == max_steps, where max_steps is the float
\* quotient (max_coord - min_coord) / step_size, never rounded.
ReachedMaxSteps(executed, mn, mx, step) == executed * step = mx - mn

\* ----------------------------------------------------------------- Init
\* AxisNode.__init__: no goal yet, and the result message as created.
NodeInit ==
    /\ goal_status = "none"
    /\ action_res = FALSE
    /\ terminal_reports = 0
    /\ handler_exit = [c \in Callers |-> "none"]

\* The state after a successful construction, for travel ranges up to R
\* and the step times of ST.
InitWith(R, ST) ==
    /\ pin_values = <<1, 2, 3>>
    /\ constructed = "ok"
    /\ axis_type \in {"LIN", "ROT"}
    /\ step_size \in 1..MaxStepSize
    /\ \E st \in ST :
          /\ min_step = st[1]
          /\ max_step = st[2]
          /\ delta_step = st[3]
          /\ step_intervals = StepIntervals(st[1], st[2], st[3])
    /\ min_coord \in MinCoords
    /\ max_coord \in min_coord..(min_coord + R)
    /\ current_coord = -1
    /\ commanded_coord = -1
    /\ homing_done = FALSE
    /\ busy = FALSE
    /\ pc = [c \in Callers |-> "idle"]
    /\ op = [c \in Callers |-> "none"]
    /\ target_coord = [c \in Callers |-> 0]
    /\ move_direction = [c \in Callers |-> FALSE]
    /\ n_steps = [c \in Callers |-> 0]
    /\ steps_list = [c \in Callers |-> << >>]
    /\ executed_steps = [c \in Callers |-> 0]
    /\ reached_sensor = [c \in Callers |-> FALSE]
    /\ result = [c \in Callers |-> "none"]
    /\ pulses = [c \in Callers |-> << >>]
    /\ samples = [c \in Callers |-> << >>]
    /\ entry_busy = [c \in Callers |-> FALSE]
    /\ read_coord = [c \in Callers |-> FALSE]
    /\ NodeInit

InitRange(R) == InitWith(R, StepTimes)

\* The targets a caller may ask for: the whole range and one unit beyond
\* each end.
Targets == (min_coord - 1)..(max_coord + 1)

\* Cap on executed_steps of one homing run.
MaxExecuted == (max_coord - min_coord) \div step_size + ExtraSteps

\* The coordinates the model follows.
Followed(coord) ==
    coord >= min_coord - MaxDrift /\ coord <= max_coord + MaxDrift

\* The coordinate the motor has been commanded to after one more step in
\* the given direction. It is never above current_coord, and is followed
\* down to one unit below the lowest coordinate the model follows.
Commanded(coord, direction) ==
    LET stepped == UpdateCoord(coord, direction, step_size)
        lowest == min_coord - MaxDrift - 1
    IN  IF stepped < lowest THEN lowest ELSE stepped

\* ------------------------------------------- move_to_coordinate(target)
\* A thread calls move_to_coordinate(t).
MoveCall(c, t) ==
    /\ pc[c] = "idle"
    /\ pc' = [pc EXCEPT ![c] = "check_availability"]
    /\ op' = [op EXCEPT ![c] = "move"]
    /\ target_coord' = [target_coord EXCEPT ![c] = t]
    /\ entry_busy' = [entry_busy EXCEPT ![c] = busy]
    /\ UNCHANGED <<config, axis, move_direction, n_steps, steps_list, executed_steps,
                   reached_sensor, result, pulses, samples, read_coord>>

\* self._check_availability()
CheckAvailability(c) ==
    /\ pc[c] = "check_availability"
    /\ IF _check_availability(busy)
       THEN /\ result' = [result EXCEPT ![c] = "busy"]
            /\ pc' = [pc EXCEPT ![c] = "done"]
       ELSE /\ pc' = [pc EXCEPT ![c] = "set_busy"]
            /\ UNCHANGED result
    /\ UNCHANGED <<config, axis, op, target_coord, move_direction, n_steps, steps_list,
                   executed_steps, reached_sensor, pulses, samples, entry_busy, read_coord>>

\* self.__busy = True
SetBusy(c) ==
    /\ pc[c] = "set_busy"
    /\ busy' = TRUE
    /\ pc' = [pc EXCEPT ![c] = "check_homing"]
    /\ UNCHANGED <<config, current_coord, homing_done, commanded_coord, locals>>

\* self._check_homing()
CheckHoming(c) ==
    /\ pc[c] = "check_homing"
    /\ IF _check_homing(homing_done)
       THEN /\ busy' = FALSE
            /\ result' = [result EXCEPT ![c] = "not_homed"]
            /\ pc' = [pc EXCEPT ![c] = "done"]
       ELSE /\ pc' = [pc EXCEPT ![c] = "check_valid_target"]
            /\ UNCHANGED <<busy, result>>
    /\ UNCHANGED <<config, current_coord, homing_done, commanded_coord, op,
                   target_coord, move_direction, n_steps, steps_list, executed_steps, reached_sensor,
                   pulses, samples, entry_busy, read_coord>>

\* A check of the target whose lower branch forgets to release the axis.
CheckValidTargetKeepsBusy(c) ==
    /\ pc[c] = "check_valid_target"
    /\ IF _check_valid_target(target_coord[c], min_coord, max_coord)
       THEN /\ busy' = (target_coord[c] < min_coord)
            /\ result' = [result EXCEPT ![c] = "out_of_bounds"]
            /\ pc' = [pc EXCEPT ![c] = "done"]
       ELSE /\ pc' = [pc EXCEPT ![c] = "plan"]
            /\ UNCHANGED <<busy, result>>
    /\ UNCHANGED <<config, current_coord, homing_done, commanded_coord, op,
                   target_coord, move_direction, n_steps, steps_list, executed_steps, reached_sensor,
                   pulses, samples, entry_busy, read_coord>>

\* self._check_valid_target(target_coord)
CheckValidTarget(c) ==
    /\ pc[c] = "check_valid_target"
    /\ IF _check_valid_target(target_coord[c], min_coord, max_coord)
       THEN /\ busy' = FALSE
            /\ result' = [result EXCEPT ![c] = "out_of_bounds"]
            /\ pc' = [pc EXCEPT ![c] = "done"]
       ELSE /\ pc' = [pc EXCEPT ![c] = "plan"]
            /\ UNCHANGED <<busy, result>>
    /\ UNCHANGED <<config, current_coord, homing_done, commanded_coord, op,
                   target_coord, move_direction, n_steps, steps_list, executed_steps, reached_sensor,
                   pulses, samples, entry_busy, read_coord>>

\* distance_delta, move_direction, n_steps and steps_list of the call.
PlanMove(c) ==
    /\ pc[c] = "plan"
    /\ LET distance_delta ==
               _calculate_delta_distance(current_coord, target_coord[c])
           n == _calculate_steps(distance_delta, step_size)
       IN  /\ move_direction' =
                 [move_direction EXCEPT ![c] = _calculate_direction(distance_delta)]
           /\ n_steps' = [n_steps EXCEPT ![c] = n]
           /\ steps_list' =
                 [steps_list EXCEPT ![c] =
                     _create_steps_list(n, step_intervals, min_step,
                                        max_step, delta_step)]
    /\ read_coord' = [read_coord EXCEPT ![c] = TRUE]
    /\ pc' = [pc EXCEPT ![c] = "move_loop"]
    /\ UNCHANGED <<config, axis, op, target_coord, executed_steps,
                   reached_sensor, result, pulses, samples, entry_busy>>

\* A turn of the movement loop that steps at the slowest pause whatever
\* the list says.
MovePulseAtMaxStep(c) ==
    /\ pc[c] = "move_loop"
    /\ steps_list[c] # << >>
    /\ Followed(UpdateCoord(current_coord, move_direction[c], step_size))
    /\ pulses' = [pulses EXCEPT
                    ![c] = Append(@, <<move_direction[c], max_step>>)]
    /\ current_coord' = UpdateCoord(current_coord, move_direction[c], step_size)
    /\ commanded_coord' = Commanded(commanded_coord, move_direction[c])
    /\ steps_list' = [steps_list EXCEPT ![c] = Tail(@)]
    /\ UNCHANGED <<config, homing_done, busy, pc, op, target_coord,
                   move_direction, n_steps, executed_steps, reached_sensor,
                   result, samples, entry_busy, read_coord>>

\* One turn of the movement loop: a step of the motor, then the update of
\* the current coordinate.
MovePulse(c) ==
    /\ pc[c] = "move_loop"
    /\ steps_list[c] # << >>
    /\ Followed(UpdateCoord(current_coord, move_direction[c], step_size))
    /\ pulses' = [pulses EXCEPT
                    ![c] = Append(@, <<move_direction[c], Head(steps_list[c])>>)]
    /\ current_coord' = UpdateCoord(current_coord, move_direction[c], step_size)
    /\ commanded_coord' = Commanded(commanded_coord, move_direction[c])
    /\ steps_list' = [steps_list EXCEPT ![c] = Tail(@)]
    /\ UNCHANGED <<config, homing_done, busy, pc, op, target_coord,
                   move_direction, n_steps, executed_steps, reached_sensor,
                   result, samples, entry_busy, read_coord>>

\* self.__busy = False, and the return of the call.
Release(c) ==
    /\ pc[c] = "move_loop"
    /\ steps_list[c] = << >>
    /\ busy' = FALSE
    /\ result' = [result EXCEPT ![c] = "ok"]
    /\ pc' = [pc EXCEPT ![c] = "done"]
    /\ UNCHANGED <<config, current_coord, homing_done, commanded_coord, op,
                   target_coord, move_direction, n_steps, steps_list, executed_steps, reached_sensor,
                   pulses, samples, entry_busy, read_coord>>

\* ------------------------------------------------------------- homing()
\* A thread calls homing().
HomingCall(c) ==
    /\ pc[c] = "idle"
    /\ pc' = [pc EXCEPT ![c] = "homing_type"]
    /\ op' = [op EXCEPT ![c] = "homing"]
    /\ entry_busy' = [entry_busy EXCEPT ![c] = busy]
    /\ UNCHANGED <<config, axis, target_coord, move_direction, n_steps, steps_list,
                   executed_steps, reached_sensor, result, pulses, samples, read_coord>>

\* A rotational branch that takes zero for the origin.
HomingRotToZero(c) ==
    /\ pc[c] = "homing_type"
    /\ axis_type = "ROT"
    /\ current_coord' = 0
    /\ commanded_coord' = 0
    /\ homing_done' = TRUE
    /\ result' = [result EXCEPT ![c] = "ok"]
    /\ pc' = [pc EXCEPT ![c] = "done"]
    /\ UNCHANGED <<config, busy, op, target_coord, move_direction, n_steps,
                   steps_list, executed_steps, reached_sensor, pulses, samples,
                   entry_busy, read_coord>>

\* The rotational branch.
HomingRot(c) ==
    /\ pc[c] = "homing_type"
    /\ axis_type = "ROT"
    /\ current_coord' = min_coord
    /\ commanded_coord' = min_coord
    /\ homing_done' = TRUE
    /\ result' = [result EXCEPT ![c] = "ok"]
    /\ pc' = [pc EXCEPT ![c] = "done"]
    /\ UNCHANGED <<config, busy, op, target_coord, move_direction, n_steps, steps_list,
                   executed_steps, reached_sensor, pulses, samples, entry_busy, read_coord>>

\* The linear branch, up to the loop.
HomingLinInit(c) ==
    /\ pc[c] = "homing_type"
    /\ axis_type # "ROT"
    /\ reached_sensor' = [reached_sensor EXCEPT ![c] = FALSE]
    /\ executed_steps' = [executed_steps EXCEPT ![c] = 0]
    /\ pc' = [pc EXCEPT ![c] = "homing_loop"]
    /\ UNCHANGED <<config, axis, op, target_coord, move_direction, n_steps, steps_list,
                   result, pulses, samples, entry_busy, read_coord>>

\* A turn of the homing loop that samples the endstop before it steps.
HomingStepSampleFirst(c) ==
    /\ pc[c] = "homing_loop"
    /\ ~reached_sensor[c]
    /\ executed_steps[c] < MaxExecuted
    /\ pulses' = [pulses EXCEPT ![c] = Append(@, <<FALSE, max_step>>)]
    /\ executed_steps' = [executed_steps EXCEPT ![c] = @ + 1]
    /\ commanded_coord' =
          IF homing_done THEN Commanded(commanded_coord, FALSE)
          ELSE commanded_coord
    /\ \E sample \in BOOLEAN :
          /\ reached_sensor' = [reached_sensor EXCEPT ![c] = sample]
          /\ samples' = [samples EXCEPT
                           ![c] = Append(@, [pulse |-> Len(pulses[c]),
                                             triggered |-> sample])]
    /\ IF ReachedMaxSteps(executed_steps[c] + 1, min_coord, max_coord, step_size)
       THEN /\ result' = [result EXCEPT ![c] = "hardware_fault"]
            /\ pc' = [pc EXCEPT ![c] = "done"]
       ELSE UNCHANGED <<result, pc>>
    /\ UNCHANGED <<config, current_coord, homing_done, busy, op, target_coord,
                   move_direction, n_steps, steps_list, entry_busy, read_coord>>

\* One turn of the homing loop: a step in the negative direction at the
\* minimum speed, the count, the sample of the endstop (any value), and the
\* check of the maximum steps.
HomingStep(c) ==
    /\ pc[c] = "homing_loop"
    /\ ~reached_sensor[c]
    /\ executed_steps[c] < MaxExecuted
    /\ pulses' = [pulses EXCEPT ![c] = Append(@, <<FALSE, max_step>>)]
    /\ executed_steps' = [executed_steps EXCEPT ![c] = @ + 1]
    /\ commanded_coord' =
          IF homing_done THEN Commanded(commanded_coord, FALSE)
          ELSE commanded_coord
    /\ \E sample \in BOOLEAN :
          /\ reached_sensor' = [reached_sensor EXCEPT ![c] = sample]
          /\ samples' = [samples EXCEPT
                           ![c] = Append(@, [pulse |-> Len(pulses[c]) + 1,
                                             triggered |-> sample])]
    /\ IF ReachedMaxSteps(executed_steps[c] + 1, min_coord, max_coord, step_size)
       THEN /\ result' = [result EXCEPT ![c] = "hardware_fault"]
            /\ pc' = [pc EXCEPT ![c] = "done"]
       ELSE UNCHANGED <<result, pc>>
    /\ UNCHANGED <<config, current_coord, homing_done, busy, op, target_coord,
                   move_direction, n_steps, steps_list, entry_busy, read_coord>>

\* After the loop: the minimum coordinate and the homing attribute.
HomingSet(c) ==
    /\ pc[c] = "homing_loop"
    /\ reached_sensor[c]
    /\ current_coord' = min_coord
    /\ commanded_coord' = min_coord
    /\ homing_done' = TRUE
    /\ result' = [result EXCEPT ![c] = "ok"]
    /\ pc' = [pc EXCEPT ![c] = "done"]
    /\ UNCHANGED <<config, busy, op, target_coord, move_direction, n_steps, steps_list,
                   executed_steps, reached_sensor, pulses, samples, entry_busy, read_coord>>

\* The caller has seen the outcome of its call; its locals are gone.
Return(c) ==
    /\ pc[c] = "done"
    /\ pc' = [pc EXCEPT ![c] = "idle"]
    /\ op' = [op EXCEPT ![c] = "none"]
    /\ target_coord' = [target_coord EXCEPT ![c] = 0]
    /\ move_direction' = [move_direction EXCEPT ![c] = FALSE]
    /\ n_steps' = [n_steps EXCEPT ![c] = 0]
    /\ steps_list' = [steps_list EXCEPT ![c] = << >>]
    /\ executed_steps' = [executed_steps EXCEPT ![c] = 0]
    /\ reached_sensor' = [reached_sensor EXCEPT ![c] = FALSE]
    /\ result' = [result EXCEPT ![c] = "none"]
    /\ pulses' = [pulses EXCEPT ![c] = << >>]
    /\ samples' = [samples EXCEPT ![c] = << >>]
    /\ entry_busy' = [entry_busy EXCEPT ![c] = FALSE]
    /\ read_coord' = [read_coord EXCEPT ![c] = FALSE]
    /\ UNCHANGED <<config, axis>>

\* ------------------------------------------------------- specifications
\* The steps of a call of the driver under way, up to its end.
DriverStep(c) ==
    /\ \/ CheckAvailability(c)
       \/ SetBusy(c)
       \/ CheckHoming(c)
       \/ CheckValidTarget(c)
       \/ PlanMove(c)
       \/ MovePulse(c)
       \/ Release(c)
       \/ HomingRot(c)
       \/ HomingLinInit(c)
       \/ HomingStep(c)
       \/ HomingSet(c)
    /\ UNCHANGED node

\* The steps of a call under way.
Step(c) ==
    \/ DriverStep(c)
    \/ Return(c) /\ UNCHANGED node

\* Threaded host: the calls of the threads interleave freely.
Next ==
    \E c \in Callers :
        \/ \E t \in Targets : MoveCall(c, t) /\ UNCHANGED node
        \/ HomingCall(c) /\ UNCHANGED node
        \/ Step(c)

Init == InitRange(MaxRangeThreaded)

Spec == Init /\ [][Next]_vars

\* Serialized host: a call starts only when no other call is under way.
OthersIdle(c) == \A d \in Callers \ {c} : pc[d] = "idle"

SeqNext ==
    \E c \in Callers :
        \/ OthersIdle(c) /\ UNCHANGED node /\ \E t \in Targets : MoveCall(c, t)
        \/ OthersIdle(c) /\ UNCHANGED node /\ HomingCall(c)
        \/ Step(c)

SeqInit == InitRange(MaxRange)

SeqSpec == SeqInit /\ [][SeqNext]_vars

\* ----------------------------------------------------- the constructor
\* The arguments of AxisDriver(pin_values, step_values, coord_values,
\* axis_type), before any attribute is set.
CtorInit ==
    /\ pin_values \in (1..MaxPin) \X (1..MaxPin) \X (1..MaxPin)
    /\ constructed = "pending"
    /\ axis_type \in {"LIN", "ROT"}
    /\ step_size = 1
    /\ \E st \in AllStepTimes :
          /\ min_step = st[1]
          /\ max_step = st[2]
          /\ delta_step = st[3]
    /\ step_intervals = 0
    /\ min_coord \in MinCoords
    /\ max_coord = min_coord
    /\ current_coord = 0
    /\ commanded_coord = 0
    /\ homing_done \in BOOLEAN
    /\ busy \in BOOLEAN
    /\ pc = [c \in Callers |-> "idle"]
    /\ op = [c \in Callers |-> "none"]
    /\ target_coord = [c \in Callers |-> 0]
    /\ move_direction = [c \in Callers |-> FALSE]
    /\ n_steps = [c \in Callers |-> 0]
    /\ steps_list = [c \in Callers |-> << >>]
    /\ executed_steps = [c \in Callers |-> 0]
    /\ reached_sensor = [c \in Callers |-> FALSE]
    /\ result = [c \in Callers |-> "none"]
    /\ pulses = [c \in Callers |-> << >>]
    /\ samples = [c \in Callers |-> << >>]
    /\ entry_busy = [c \in Callers |-> FALSE]
    /\ read_coord = [c \in Callers |-> FALSE]
    /\ NodeInit

\* AxisDriver.__init__
Construct ==
    /\ constructed = "pending"
    /\ IF PinsCollide(pin_values, axis_type)
       THEN /\ constructed' = "error"
            /\ UNCHANGED <<step_intervals, axis>>
       ELSE /\ constructed' = "ok"
            /\ step_intervals' = StepIntervals(min_step, max_step, delta_step)
            /\ current_coord' = -1
            /\ commanded_coord' = -1
            /\ homing_done' = FALSE
            /\ busy' = FALSE
    /\ UNCHANGED <<pin_values, axis_type, step_size, min_step, max_step,
                   delta_step, min_coord, max_coord, pc, locals, node>>

CtorNext == Construct

CtorSpec == CtorInit /\ [][CtorNext]_vars

\* ------------------------------------------------ the step planner alone
\* self._create_steps_list(n), called on its own on an instance.
CreateStepsList(c, n) ==
    /\ pc[c] = "idle"
    /\ n_steps' = [n_steps EXCEPT ![c] = n]
    /\ steps_list' =
          [steps_list EXCEPT ![c] =
              _create_steps_list(n, step_intervals, min_step, max_step,
                                 delta_step)]
    /\ UNCHANGED <<config, axis, pc, op, target_coord, move_direction,
                   executed_steps, reached_sensor, result, pulses, samples,
                   entry_busy, read_coord, node>>

\* The step counts given to the planner.
PlanSteps == (-1)..MaxPlanSteps

PlanInit == InitWith(0, AllStepTimes)

PlanNext == \E c \in Callers, n \in PlanSteps : CreateStepsList(c, n)

PlanSpec == PlanInit /\ [][PlanNext]_vars

\* ------------------------------------------------------------ the node
\* The thread of the action server, which runs action_execute_cb for one
\* goal at a time, and a thread of the homing service.
ActionThread == "t1"
ServiceThread == "t2"

\* action_execute_cb(goal) is called for a new goal, and calls
\* move_to_coordinate(goal.target_coordinate).
ExecuteCb(t) ==
    /\ MoveCall(ActionThread, t)
    /\ goal_status' = "active"
    /\ terminal_reports' = 0
    /\ handler_exit' = [handler_exit EXCEPT ![ActionThread] = "none"]
    /\ UNCHANGED action_res

\* homing_handler(srv) is called, and calls homing().
HomingHandler ==
    /\ HomingCall(ServiceThread)
    /\ handler_exit' = [handler_exit EXCEPT ![ServiceThread] = "none"]
    /\ UNCHANGED <<goal_status, action_res, terminal_reports>>

\* move_to_coordinate has returned: result = True and set_succeeded.
SetSucceeded ==
    /\ pc[ActionThread] = "done"
    /\ result[ActionThread] = "ok"
    /\ action_res' = TRUE
    /\ goal_status' = "succeeded"
    /\ terminal_reports' = terminal_reports + 1
    /\ pc' = [pc EXCEPT ![ActionThread] = "handled"]
    /\ UNCHANGED <<config, axis, locals, handler_exit>>

\* An except clause of action_execute_cb that lets the exception go on.
SetAbortedRaises ==
    /\ pc[ActionThread] = "done"
    /\ result[ActionThread] # "ok"
    /\ handler_exit' = [handler_exit EXCEPT ![ActionThread] = "raised"]
    /\ pc' = [pc EXCEPT ![ActionThread] = "handled"]
    /\ UNCHANGED <<config, axis, locals, goal_status, action_res,
                   terminal_reports>>

\* move_to_coordinate has raised an AxisException: result = False,
\* set_aborted, and the log of the error.
SetAborted ==
    /\ pc[ActionThread] = "done"
    /\ result[ActionThread] # "ok"
    /\ action_res' = FALSE
    /\ goal_status' = "aborted"
    /\ terminal_reports' = terminal_reports + 1
    /\ pc' = [pc EXCEPT ![ActionThread] = "handled"]
    /\ UNCHANGED <<config, axis, locals, handler_exit>>

\* homing() has returned, or has raised an AxisException that the handler
\* has caught and logged.
HomingCaught ==
    /\ pc[ServiceThread] = "done"
    /\ pc' = [pc EXCEPT ![ServiceThread] = "handled"]
    /\ UNCHANGED <<config, axis, locals, node>>

\* The handler returns: None from action_execute_cb, EmptyResponse() from
\* homing_handler. A handler that an exception has left does not return.
HandlerReturn(c) ==
    /\ pc[c] = "handled"
    /\ pc' = [pc EXCEPT ![c] = "idle"]
    /\ op' = [op EXCEPT ![c] = "none"]
    /\ target_coord' = [target_coord EXCEPT ![c] = 0]
    /\ move_direction' = [move_direction EXCEPT ![c] = FALSE]
    /\ n_steps' = [n_steps EXCEPT ![c] = 0]
    /\ steps_list' = [steps_list EXCEPT ![c] = << >>]
    /\ executed_steps' = [executed_steps EXCEPT ![c] = 0]
    /\ reached_sensor' = [reached_sensor EXCEPT ![c] = FALSE]
    /\ result' = [result EXCEPT ![c] = "none"]
    /\ pulses' = [pulses EXCEPT ![c] = << >>]
    /\ samples' = [samples EXCEPT ![c] = << >>]
    /\ entry_busy' = [entry_busy EXCEPT ![c] = FALSE]
    /\ read_coord' = [read_coord EXCEPT ![c] = FALSE]
    /\ handler_exit' =
          [handler_exit EXCEPT
              ![c] = IF @ = "raised" THEN "raised" ELSE "returned"]
    /\ UNCHANGED <<config, axis, goal_status, action_res, terminal_reports>>

\* The node: goals are executed one at a time by the action thread while
\* the homing service runs in a thread of its own.
NodeNext ==
    \/ \E t \in Targets : ExecuteCb(t)
    \/ HomingHandler
    \/ \E c \in Callers : DriverStep(c)
    \/ SetSucceeded
    \/ SetAborted
    \/ HomingCaught
    \/ \E c \in Callers : HandlerReturn(c)

NodeSpec == Init /\ [][NodeNext]_vars

TypeOK ==
    /\ busy \in BOOLEAN
    /\ homing_done \in BOOLEAN
    /\ pc \in [Callers -> {"idle", "check_availability", "set_busy",
                           "check_homing", "check_valid_target", "plan",
                           "move_loop", "homing_type", "homing_loop", "done",
                           "handled"}]
    /\ result \in [Callers -> {"none", "ok", "busy", "not_homed",
                               "out_of_bounds", "hardware_fault"}]
    /\ goal_status \in {"none", "active", "succeeded", "aborted"}
    /\ action_res \in BOOLEAN
    /\ terminal_reports \in Nat
    /\ handler_exit \in [Callers -> {"none", "returned", "raised"}]

\* ---------------------------------------------------------------- claims
\* A call that is issuing pulses or about to write the coordinate.
Operating(c) ==
    \/ pc[c] = "homing_loop"
    \/ pc[c] = "move_loop" /\ steps_list[c] # << >>

\* A call past its entry and not yet returned: a move that has passed the
\* check of availability, a linear homing in its loop.
InFlight(c) ==
    pc[c] \in {"check_homing", "check_valid_target", "plan", "move_loop",
               "homing_loop"}

\* A move call that found the axis free when it was invoked.
FreeMove(c) == op[c] = "move" /\ ~entry_busy[c]

\* The step budget of a linear homing run.
HomingBudget == (max_coord - min_coord) \div step_size

\* C1: at most one homing or move operation is in flight at any time,
\* whatever the interleaving of the callers.
C1_OneInFlight ==
    \A c, d \in Callers :
        (Operating(c) /\ Operating(d) /\ op[c] = "move") => c = d

\* C2: busy is true whenever a homing or a move is in flight, and false
\* whenever none is.
C2_BusyTracksOperation ==
    /\ \A c \in Callers : InFlight(c) => busy
    /\ (\A c \in Callers : pc[c] = "idle") => ~busy

\* C3: a move invoked while busy fails with the busy error, issues no step
\* and leaves current_coord, homing_done and busy as they were.
C3_BusyRejected ==
    [][\A c \in Callers :
          (pc[c] = "check_availability" /\ busy /\ pc'[c] # pc[c])
          => /\ pc'[c] = "done"
             /\ result'[c] = "busy"
             /\ pulses'[c] = << >>
             /\ ~read_coord'[c]
             /\ UNCHANGED <<current_coord, homing_done, busy>>]_vars

\* A move to a reachable target on a homed axis was rejected as busy.
C3_Witness ==
    \E c \in Callers :
        /\ pc[c] = "done"
        /\ result[c] = "busy"
        /\ busy
        /\ homing_done
        /\ target_coord[c] >= min_coord
        /\ target_coord[c] <= max_coord
        /\ target_coord[c] # current_coord

\* C4: a call that starts with busy false returns with busy false, on every
\* exit path.
C4_BusyClearedOnReturn ==
    \A c \in Callers : (pc[c] = "done" /\ ~entry_busy[c]) => ~busy

\* A move that had taken the axis failed on its target and released it.
C4_Witness ==
    \E c \in Callers :
        /\ pc[c] = "done"
        /\ ~entry_busy[c]
        /\ result[c] = "out_of_bounds"
        /\ target_coord[c] < min_coord
        /\ ~busy

\* C5: a move on an axis that is not homed fails as not homed whatever the
\* target, issues no pulse, never reads current_coord and leaves
\* current_coord and homing_done as they were.
C5_NotHomedRejected ==
    [][\A c \in Callers :
          (FreeMove(c) /\ ~homing_done)
          => /\ UNCHANGED <<current_coord, homing_done>>
             /\ pulses'[c] = << >>
             /\ ~read_coord'[c]
             /\ pc'[c] \in {"check_availability", "set_busy", "check_homing",
                            "done", "idle"}
             /\ (pc'[c] = "done" => result'[c] = "not_homed")]_vars

\* A move to a target beyond max_coord was rejected as not homed.
C5_Witness ==
    \E c \in Callers :
        /\ pc[c] = "done"
        /\ FreeMove(c)
        /\ ~homing_done
        /\ result[c] = "not_homed"
        /\ target_coord[c] > max_coord

OutOfRange(t) == t < min_coord \/ t > max_coord

\* C6: on a homed axis a move to a target below min_coord or above
\* max_coord fails as out of bounds before any pulse and leaves
\* current_coord and homing_done as they were; min_coord and max_coord
\* themselves are accepted.
C6_OutOfBoundsRejected ==
    /\ [](\A c \in Callers :
            (pc[c] = "done" /\ FreeMove(c) /\ homing_done)
            => IF OutOfRange(target_coord[c])
               THEN result[c] = "out_of_bounds" /\ pulses[c] = << >>
               ELSE result[c] = "ok")
    /\ [][\A c \in Callers :
            (FreeMove(c) /\ homing_done /\ OutOfRange(target_coord[c]))
            => /\ UNCHANGED <<current_coord, homing_done>>
               /\ pulses'[c] = << >>]_vars

\* A move from elsewhere to max_coord itself succeeded.
C6_Witness ==
    \E c \in Callers :
        /\ pc[c] = "done"
        /\ FreeMove(c)
        /\ homing_done
        /\ target_coord[c] = max_coord
        /\ pulses[c] # << >>
        /\ result[c] = "ok"

\* C7: after a successful move the coordinate is less than one step size
\* away from the target.
C7_WithinOneStep ==
    \A c \in Callers :
        (pc[c] = "done" /\ op[c] = "move" /\ result[c] = "ok")
        => Abs(current_coord - target_coord[c]) < step_size

\* A move of several pulses ended short of a target between two steps.
C7_Witness ==
    \E c \in Callers :
        /\ pc[c] = "done"
        /\ op[c] = "move"
        /\ result[c] = "ok"
        /\ Len(pulses[c]) >= 2
        /\ current_coord # target_coord[c]

\* C8: every pulse of a move changes the coordinate by exactly one step
\* size, strictly nearer to the target and never past it.
C8_TowardTarget ==
    [][\A c \in Callers :
          (pc[c] = "move_loop" /\ pulses'[c] # pulses[c])
          => /\ Abs(current_coord' - current_coord) = step_size
             /\ Abs(current_coord' - target_coord[c])
                  < Abs(current_coord - target_coord[c])
             /\ (current_coord <= target_coord[c]
                   => current_coord' <= target_coord[c])
             /\ (current_coord >= target_coord[c]
                   => current_coord' >= target_coord[c])]_vars

\* A move in the negative direction is between two of its pulses.
C8_Witness ==
    \E c \in Callers :
        /\ pc[c] = "move_loop"
        /\ pulses[c] # << >>
        /\ steps_list[c] # << >>
        /\ ~move_direction[c]

\* C9: a linear homing run whose endstop has not triggered within the
\* budget of pulses has failed with the hardware fault, and homing_done is
\* false, whether or not the axis was homed before.
C9_FaultWithinBudget ==
    \A c \in Callers :
        ( /\ op[c] = "homing"
          /\ axis_type = "LIN"
          /\ HomingBudget >= 1
          /\ \/ executed_steps[c] > HomingBudget
             \/ executed_steps[c] = HomingBudget /\ ~reached_sensor[c] )
        => /\ pc[c] = "done"
           /\ result[c] = "hardware_fault"
           /\ ~homing_done

\* C10: a linear homing run whose endstop triggers on the sample after
\* pulse k, 1 <= k <= budget, succeeds with exactly k pulses, the
\* coordinate at min_coord and homing_done true.
C10_TriggerWithinBudget ==
    \A c \in Callers :
        ( /\ op[c] = "homing"
          /\ axis_type = "LIN"
          /\ reached_sensor[c]
          /\ executed_steps[c] >= 1
          /\ executed_steps[c] <= HomingBudget )
        => /\ result[c] # "hardware_fault"
           /\ pc[c] = "done"
                => /\ result[c] = "ok"
                   /\ Len(pulses[c]) = executed_steps[c]
                   /\ current_coord = min_coord
                   /\ homing_done

\* C11: a linear homing run ends, in success or in the hardware fault,
\* after at most floor((max_coord - min_coord) / step_size) pulses, for
\* every range and every behaviour of the endstop.
C11_HomingWithinBudget ==
    \A c \in Callers :
        (op[c] = "homing" /\ axis_type = "LIN")
        => executed_steps[c] <= HomingBudget

\* C12: on a rotational axis homing succeeds at once, with the coordinate
\* at min_coord and homing_done true, no step of the motor and no sample
\* of the endstop, whatever the state before.
C12_RotationalHoming ==
    /\ [][\A c \in Callers :
            (op[c] = "homing" /\ axis_type = "ROT" /\ pc[c] = "homing_type"
               /\ pc'[c] # pc[c])
            => /\ pc'[c] = "done"
               /\ result'[c] = "ok"
               /\ current_coord' = min_coord
               /\ homing_done']_vars
    /\ [](\A c \in Callers :
            (op[c] = "homing" /\ axis_type = "ROT")
            => pulses[c] = << >> /\ samples[c] = << >>)

\* A rotational homing has ended.
C12_Witness ==
    \E c \in Callers :
        /\ op[c] = "homing"
        /\ axis_type = "ROT"
        /\ pc[c] = "done"
        /\ result[c] = "ok"
        /\ homing_done
        /\ current_coord = min_coord

\* The step planner of spec 4.3, pause by pause: position i of the plan
\* for n steps with I intervals.
PolicyPause(i, n, I, dmin, dmax, delta) ==
    IF n < 2 * I THEN dmax
    ELSE IF i <= I THEN dmax - (i - 1) * delta
    ELSE IF i <= n - I THEN dmin
    ELSE dmin + (i - (n - I) - 1) * delta

\* C13: the steps list is the reference policy for every step count and
\* configuration: empty for n <= 0, n times max_step below 2I, else the
\* acceleration leg, n - 2I times min_step and the deceleration leg; with
\* I = 3, min 1, max 3, delta 1 and n = 10 it is 3,2,1,1,1,1,1,1,2,3.
C13_PlanIsPolicy ==
    \A c \in Callers :
        /\ Len(steps_list[c]) = (IF n_steps[c] <= 0 THEN 0 ELSE n_steps[c])
        /\ \A i \in 1..Len(steps_list[c]) :
              steps_list[c][i] =
                  PolicyPause(i, n_steps[c], step_intervals, min_step,
                              max_step, delta_step)
        /\ (<<min_step, max_step, delta_step>> = <<1, 3, 1>> /\ n_steps[c] = 10)
              => steps_list[c] = <<3, 2, 1, 1, 1, 1, 1, 1, 2, 3>>

\* The planner has answered for ten steps with three intervals.
C13_Witness ==
    \E c \in Callers :
        /\ step_intervals = 3
        /\ n_steps[c] = 10
        /\ steps_list[c] = <<3, 2, 1, 1, 1, 1, 1, 1, 2, 3>>

\* The pins an axis of the given type uses are pairwise distinct.
PinsDistinct(pins, type) ==
    /\ pins[1] # pins[2]
    /\ type = "LIN" => (pins[3] # pins[1] /\ pins[3] # pins[2])

\* C14: the construction succeeds exactly when the pins the axis uses are
\* pairwise distinct, and the new instance is neither homed nor busy.
C14_ConstructionPins ==
    constructed # "pending"
    => /\ constructed = "ok" <=> PinsDistinct(pin_values, axis_type)
       /\ constructed = "ok" => (~homing_done /\ ~busy)

\* A linear axis whose three pins differ has been constructed.
C14_Witness ==
    /\ constructed = "ok"
    /\ axis_type = "LIN"
    /\ Cardinality({pin_values[1], pin_values[2], pin_values[3]}) = 3
    /\ ~homing_done
    /\ ~busy

\* C15: step_intervals is floor((max_step - min_step) / delta_step) + 1,
\* so at least 1, and 5 for min 1, max 5, delta 1.
C15_StepIntervals ==
    constructed = "ok"
    => /\ step_intervals = (max_step - min_step) \div delta_step + 1
       /\ step_intervals >= 1
       /\ <<min_step, max_step, delta_step>> = <<1, 5, 1>>
             => step_intervals = 5

\* An instance with min 1, max 5, delta 1 has been constructed.
C15_Witness ==
    /\ constructed = "ok"
    /\ <<min_step, max_step, delta_step>> = <<1, 5, 1>>
    /\ step_intervals = 5

\* C16: the coordinate of a homed axis is min_coord plus step_size times
\* the positive minus the negative pulses commanded since the homing that
\* set it, also once a move or a homing has failed.
C16_CoordTracksPulses ==
    (homing_done /\ \A c \in Callers : pc[c] \in {"idle", "done"})
    => current_coord = commanded_coord

\* C17: while homing_done is true the coordinate is within
\* [min_coord, max_coord], whatever the interleaving of the callers.
C17_CoordWithinRange ==
    homing_done => (min_coord <= current_coord /\ current_coord <= max_coord)

\* The pulses of a whole move of n steps in one direction, by the policy
\* of spec 4.3.
PolicyPulses(n, direction) ==
    [i \in 1..n |->
        <<direction,
          PolicyPause(i, n, step_intervals, min_step, max_step, delta_step)>>]

\* C18: a move plans n = floor(|current_coord - target| / step_size) steps,
\* in the positive direction exactly when the target is above the
\* coordinate at that time; its step calls are the pauses of the plan for
\* n, in order and in that direction, and a move that has succeeded has
\* made exactly n of them.
C18_MoveFollowsPlan ==
    /\ [][\A c \in Callers :
            (pc[c] = "plan" /\ pc'[c] = "move_loop")
            => /\ n_steps'[c]
                    = Abs(current_coord - target_coord[c]) \div step_size
               /\ n_steps'[c] > 0
                    => (move_direction'[c] <=> target_coord[c] > current_coord)]_vars
    /\ [](\A c \in Callers :
            (op[c] = "move" /\ (pc[c] = "move_loop" \/ result[c] = "ok"))
            => /\ Len(pulses[c]) + Len(steps_list[c]) = n_steps[c]
               /\ pulses[c]
                    = SubSeq(PolicyPulses(n_steps[c], move_direction[c]),
                             1, Len(pulses[c]))
               /\ result[c] = "ok" => Len(pulses[c]) = n_steps[c])

\* A move of five steps has succeeded: acceleration, one step of cruise,
\* deceleration.
C18_Witness ==
    \E c \in Callers :
        /\ pc[c] = "done"
        /\ op[c] = "move"
        /\ result[c] = "ok"
        /\ n_steps[c] = 5
        /\ pulses[c] = <<<<TRUE, 2>>, <<TRUE, 1>>, <<TRUE, 1>>, <<TRUE, 1>>,
                         <<TRUE, 2>>>>

\* C19: a linear homing steps only in the negative direction at max_step,
\* samples the endstop once after each step and never before the first,
\* and makes no step after a sample that was triggered.
C19_HomingPulses ==
    \A c \in Callers :
        (op[c] = "homing" /\ axis_type = "LIN")
        => /\ \A i \in 1..Len(pulses[c]) : pulses[c][i] = <<FALSE, max_step>>
           /\ Len(samples[c]) = Len(pulses[c])
           /\ \A i \in 1..Len(samples[c]) :
                 /\ samples[c][i].pulse = i
                 /\ samples[c][i].triggered => i = Len(pulses[c])

\* A linear homing has ended on a sample triggered after its third step.
C19_Witness ==
    \E c \in Callers :
        /\ op[c] = "homing"
        /\ axis_type = "LIN"
        /\ pc[c] = "done"
        /\ result[c] = "ok"
        /\ Len(pulses[c]) = 3
        /\ samples[c][3].triggered

\* A move called on a free, homed axis that has made no step, and whose
\* target is less than one step from the coordinate.
NearTarget(c) ==
    /\ FreeMove(c)
    /\ homing_done
    /\ pulses[c] = << >>
    /\ Abs(current_coord - target_coord[c]) < step_size

\* C20 as stated: a move of a homed, idle axis to a target less than one
\* step away succeeds with no step call and busy false on return.
C20_NearTargetNoOp ==
    \A c \in Callers :
        (NearTarget(c) /\ pc[c] = "done") => (result[c] = "ok" /\ ~busy)

\* C20: a move of a homed, idle axis to a target within
\* [min_coord, max_coord] and less than one step away succeeds with no
\* step call, leaves current_coord and homing_done as they were, and has
\* busy false on return.
C20_NearTargetInRangeNoOp ==
    /\ [](\A c \in Callers :
            (NearTarget(c) /\ ~OutOfRange(target_coord[c]))
            => /\ pc[c] = "move_loop" => steps_list[c] = << >>
               /\ pc[c] = "done" => (result[c] = "ok" /\ ~busy))
    /\ [][\A c \in Callers :
            (NearTarget(c) /\ ~OutOfRange(target_coord[c]) /\ pc[c] # "done")
            => /\ current_coord' = current_coord
               /\ homing_done' = homing_done
               /\ pulses'[c] = pulses[c]]_vars

\* A move to a target short of one step from the coordinate, and not the
\* coordinate itself, has succeeded without a step.
C20_Witness ==
    \E c \in Callers :
        /\ NearTarget(c)
        /\ ~OutOfRange(target_coord[c])
        /\ pc[c] = "done"
        /\ result[c] = "ok"
        /\ current_coord # target_coord[c]
        /\ ~busy

\* delta_step divides the span of the step times evenly.
DeltaDivides == (max_step - min_step) % delta_step = 0

\* The pauses of the speed levels: min_step + k * delta_step for k in
\* 0..step_intervals-1.
SpeedLevels == {min_step + k * delta_step : k \in 0..(step_intervals - 1)}

\* C21: when delta_step divides max_step - min_step, every pause of the
\* steps list for n >= 0 lies in [min_step, max_step] and is one of the
\* step_intervals speed levels min_step + k * delta_step.
C21_PausesAreLevels ==
    \A c \in Callers :
        (n_steps[c] >= 0 /\ DeltaDivides)
        => \A i \in 1..Len(steps_list[c]) :
              /\ min_step <= steps_list[c][i]
              /\ steps_list[c][i] <= max_step
              /\ steps_list[c][i] \in SpeedLevels

\* A plan with a pause strictly between the two ends of the range.
C21_Witness ==
    \E c \in Callers :
        /\ DeltaDivides
        /\ n_steps[c] >= 2 * step_intervals
        /\ \E i \in 1..Len(steps_list[c]) :
              min_step < steps_list[c][i] /\ steps_list[c][i] < max_step

\* C22: when delta_step divides max_step - min_step and n is at least
\* 2 * step_intervals, two consecutive pauses of the steps list differ by
\* 0 or by exactly delta_step, also across the boundaries of the legs.
C22_OneLevelJumps ==
    \A c \in Callers :
        (n_steps[c] >= 2 * step_intervals /\ DeltaDivides)
        => \A i \in 1..(Len(steps_list[c]) - 1) :
              Abs(steps_list[c][i + 1] - steps_list[c][i]) \in {0, delta_step}

\* Two plans over three levels: acceleration straight into deceleration,
\* and a cruise between the two legs.
C22_Witness ==
    /\ DeltaDivides
    /\ step_intervals = 3
    /\ \E c, d \in Callers :
          /\ n_steps[c] = 6
          /\ steps_list[c] = <<3, 2, 1, 1, 2, 3>>
          /\ n_steps[d] = 8
          /\ steps_list[d] = <<3, 2, 1, 1, 1, 1, 2, 3>>

\* A sequence back to front.
Reverse(seq) == [i \in 1..Len(seq) |-> seq[Len(seq) + 1 - i]]

\* C23: when delta_step divides max_step - min_step and n is at least
\* 2 * step_intervals, the steps list reads the same back to front, its
\* first and last pauses are max_step, and its acceleration leg ends at
\* min_step.
C23_PlanSymmetric ==
    \A c \in Callers :
        (n_steps[c] >= 2 * step_intervals /\ DeltaDivides)
        => /\ Len(steps_list[c]) = n_steps[c]
           /\ Reverse(steps_list[c]) = steps_list[c]
           /\ steps_list[c][1] = max_step
           /\ steps_list[c][n_steps[c]] = max_step
           /\ steps_list[c][step_intervals] = min_step

\* A plan of odd length over several levels with delta_step above one unit.
C23_Witness ==
    \E c \in Callers :
        /\ DeltaDivides
        /\ <<min_step, max_step, delta_step>> = <<1, 5, 2>>
        /\ n_steps[c] = 7
        /\ steps_list[c] = <<5, 3, 1, 1, 1, 3, 5>>

\* The action thread is inside move_to_coordinate, or at its end.
InDriverCall(c) == pc[c] \notin {"idle", "handled"}

\* C24: every goal of the action ends in exactly one terminal report,
\* succeeded with result true when move_to_coordinate returned and aborted
\* with result false when it raised an axis error, and no axis error of a
\* homing or a move leaves homing_handler or action_execute_cb.
C24_OneTerminalReport ==
    /\ \A c \in Callers : handler_exit[c] # "raised"
    /\ terminal_reports <= 1
    /\ InDriverCall(ActionThread)
          => (goal_status = "active" /\ terminal_reports = 0)
    /\ pc[ActionThread] = "handled"
          => /\ terminal_reports = 1
             /\ IF result[ActionThread] = "ok"
                THEN goal_status = "succeeded" /\ action_res
                ELSE goal_status = "aborted" /\ ~action_res
    /\ (pc[ActionThread] = "idle" /\ goal_status # "none")
          => /\ terminal_reports = 1
             /\ goal_status \in {"succeeded", "aborted"}
             /\ action_res <=> goal_status = "succeeded"

\* A goal out of bounds has been aborted, and the handler of a homing
\* that failed with the hardware fault has caught the error.
C24_Witness ==
    /\ pc[ActionThread] = "handled"
    /\ result[ActionThread] = "out_of_bounds"
    /\ goal_status = "aborted"
    /\ ~action_res
    /\ terminal_reports = 1
    /\ pc[ServiceThread] = "handled"
    /\ result[ServiceThread] = "hardware_fault"

\* A goal that needed steps has succeeded.
C24_WitnessSucceeded ==
    /\ pc[ActionThread] = "handled"
    /\ result[ActionThread] = "ok"
    /\ pulses[ActionThread] # << >>
    /\ goal_status = "succeeded"
    /\ action_res
    /\ terminal_reports = 1

====
